---- MODULE Spec2Model ----
(***************************************************************************)
(* A model of the ad-rendering service in src/main.py: the font-file cache *)
(* under /tmp and the functions that populate it, the generate_ad request  *)
(* handler (format lookup, background, fonts, text layout, logo, response) *)
(* and the pure helpers it calls (direction classifier, text shaping, word *)
(* wrapping, horizontal placement, logo anchors).                          *)
(*                                                                         *)
(* Texts are sequences of Unicode code points.  Pixel quantities are the   *)
(* integers the Python code computes with int() and //.                    *)
(***************************************************************************)
EXTENDS Integers, Sequences, FiniteSets, TLC

VARIABLES
    files,      \* the font cache: path key -> state of the file at that path
    phase,      \* request boundary: "idle" | "responded"
    request,    \* the request generate_ad last handled (NoRequest before any)
    response,   \* the response generate_ad last produced (NoResponse before any)
    environment,\* what the world answered while that request was handled
    canvas,     \* the draw operations applied to the canvas, in the order applied
    pc,         \* font-function callers: caller -> program position
    call,       \* font-function callers: caller -> the call being executed
    tried,      \* font-function callers: caller -> sources attempted so far, in order
    handle,     \* font-function callers: caller -> value the call returned
    w_in,       \* wrap_text: the arguments of the call
    w_out,      \* wrap_text: the returned lines (NoLines before the call returns)
    lp_in,      \* calculate_logo_position: the arguments shared by the calls
    lp_out,     \* calculate_logo_position: anchor -> returned (x, y)
    pt_in,      \* process_arabic_text: the text and the state of the shaping libraries
    pt_out      \* process_arabic_text: the returned text

vars == <<files, phase, request, environment, response, canvas, pc, call, tried, handle, w_in, w_out,
          lp_in, lp_out, pt_in, pt_out>>

None == "None"

(***************************************************************************)
(* Bounds of the model.                                                    *)
(***************************************************************************)
MaxTextLen == 5     \* longest text handed to wrap_text, in code points
MaxAdvance == 2     \* widest glyph advance of a text-measurement function
MaxWrapWidth == 4   \* largest max_width handed to wrap_text

(***************************************************************************)
(* Code points.  97 is "a", 87 is "W"; 1488 is HEBREW LETTER ALEF (U+05D0); *)
(* 1575 is ARABIC LETTER ALEF (U+0627).  Whitespace is the set str.split() *)
(* separates at: the ASCII controls and space, U+0085, U+00A0, U+1680,     *)
(* U+2000..U+200A, U+2028, U+2029, U+202F, U+205F and U+3000.              *)
(***************************************************************************)
Whitespace ==
    (9..13) \cup (28..32) \cup {133, 160, 5760} \cup (8192..8202)
    \cup {8232, 8233, 8239, 8287, 12288}

RECURSIVE SumSeq(_)
SumSeq(s) == IF s = <<>> THEN 0 ELSE Head(s) + SumSeq(Tail(s))

(***************************************************************************)
(* str.split() with no separator: the maximal runs of non-whitespace code  *)
(* points, in order; leading, trailing and repeated whitespace give no     *)
(* empty words.                                                            *)
(***************************************************************************)
RECURSIVE SplitFrom(_, _, _)
SplitFrom(text, cur, acc) ==
    IF text = <<>>
    THEN IF cur = <<>> THEN acc ELSE Append(acc, cur)
    ELSE IF Head(text) \in Whitespace
         THEN SplitFrom(Tail(text), <<>>, IF cur = <<>> THEN acc ELSE Append(acc, cur))
         ELSE SplitFrom(Tail(text), Append(cur, Head(text)), acc)

Split(text) == SplitFrom(text, <<>>, <<>>)

IsSingleWord(line) == Len(Split(line)) = 1 /\ Split(line)[1] = line

HasWord(text) == \E i \in 1..Len(text) : text[i] \notin Whitespace

(***************************************************************************)
(* draw.textbbox((0, 0), text, font): the measured width of a text.  The   *)
(* measurement belongs to the imaging library; here a metric gives every   *)
(* code point an advance and a text measures the sum of its advances.      *)
(***************************************************************************)
TextWidth(text, metric) == SumSeq([i \in 1..Len(text) |-> metric[text[i]]])

(***************************************************************************)
(* wrap_text: greedy word wrap.                                            *)
(***************************************************************************)
WrapKeepsFittingWordOnly(word, current_line, metric, max_width) ==
    TextWidth(word, metric) <= max_width

WrapFits(word, current_line, metric, max_width) ==
    LET test_line == IF current_line # <<>> THEN current_line \o <<32>> \o word ELSE word
    IN  TextWidth(test_line, metric) <= max_width

RECURSIVE WrapLoop(_, _, _, _, _)
WrapLoop(words, lines, current_line, metric, max_width) ==
    IF words = <<>>
    THEN IF current_line # <<>> THEN Append(lines, current_line) ELSE lines
    ELSE LET word == Head(words)
             test_line == IF current_line # <<>> THEN current_line \o <<32>> \o word ELSE word
         IN  IF WrapFits(word, current_line, metric, max_width)
             THEN WrapLoop(Tail(words), lines, test_line, metric, max_width)
             ELSE WrapLoop(Tail(words),
                           IF current_line # <<>> THEN Append(lines, current_line) ELSE lines,
                           word, metric, max_width)

WrapTextNoSplit(text, metric, max_width) ==
    WrapLoop(IF text = <<>> THEN <<>> ELSE <<text>>, <<>>, <<>>, metric, max_width)

wrap_text(text, metric, max_width) ==
    WrapLoop(Split(text), <<>>, <<>>, metric, max_width)

(***************************************************************************)
(* FORMAT_PRESETS.  The safe zones are kept as the integer percentages the *)
(* source writes as 0.05, 0.20, ...                                        *)
(***************************************************************************)
Preset(w, h, top, bottom, aspect) ==
    [width |-> w, height |-> h, safe_top |-> top, safe_bottom |-> bottom, aspect |-> aspect]

FORMAT_PRESETS ==
    [instagram_feed     |-> Preset(1080, 1080, 5, 5, "square"),
     facebook_feed      |-> Preset(1080, 1080, 5, 5, "square"),
     instagram_story    |-> Preset(1080, 1920, 20, 15, "vertical"),
     instagram_reel     |-> Preset(1080, 1920, 18, 20, "vertical"),
     facebook_story     |-> Preset(1080, 1920, 20, 15, "vertical"),
     facebook_reel      |-> Preset(1080, 1920, 18, 20, "vertical"),
     tiktok             |-> Preset(1080, 1920, 20, 22, "vertical"),
     facebook_landscape |-> Preset(1200, 628, 8, 8, "landscape"),
     square             |-> Preset(1080, 1080, 5, 5, "square"),
     vertical           |-> Preset(1080, 1920, 20, 15, "vertical"),
     story              |-> Preset(1080, 1920, 20, 15, "vertical"),
     reel               |-> Preset(1080, 1920, 18, 20, "vertical")]

\* FORMAT_PRESETS.get(request.format, FORMAT_PRESETS["instagram_feed"])
FormatLookup(name) ==
    IF name \in DOMAIN FORMAT_PRESETS THEN FORMAT_PRESETS[name] ELSE FORMAT_PRESETS["instagram_feed"]

(***************************************************************************)
(* Python float arithmetic under int(): int(b * r) and int(a / r) for the  *)
(* double r nearest to w / h, with b, a, w, h natural numbers, computed in *)
(* integers.  The truncated result is the exact floor except when the      *)
(* exact product or quotient is an integer k and the rounding error of r   *)
(* carries the double result to the double just below k.  The arguments   *)
(* are pixel counts and fractions: every product formed stays below 2^31.  *)
(***************************************************************************)
RECURSIVE Pow2(_)
Pow2(n) == IF n = 0 THEN 1 ELSE 2 * Pow2(n - 1)

RECURSIVE FloorLog2(_)
FloorLog2(k) == IF k < 2 THEN 0 ELSE 1 + FloorLog2(k \div 2)

\* the binary exponent p of w / h: 2^p <= w / h < 2^(p+1)
RECURSIVE ExponentUp(_, _, _)
ExponentUp(w, h, p) == IF w < 2 * h THEN p ELSE ExponentUp(w, 2 * h, p + 1)

RECURSIVE ExponentDown(_, _, _)
ExponentDown(w, h, q) == IF w >= h THEN q ELSE ExponentDown(2 * w, h, q + 1)

RatioExponent(w, h) == IF w >= h THEN ExponentUp(w, h, 0) ELSE 0 - ExponentDown(w, h, 0)

\* 2^n mod h, by squaring
RECURSIVE Pow2Mod(_, _)
Pow2Mod(n, h) ==
    IF n = 0 THEN 1 % h
    ELSE LET half == Pow2Mod(n \div 2, h)
             square == (half * half) % h
         IN  IF n % 2 = 0 THEN square ELSE (2 * square) % h

\* e with  double(w / h) - w / h = e / (h * 2^(52 - p)):  the 53-bit
\* significand rounded to nearest (w is too small for the quotient to fall
\* half-way between two significands, so the tie rule never applies)
RatioError(w, h) ==
    LET rem == ((w % h) * Pow2Mod(52 - RatioExponent(w, h), h)) % h
    IN  IF 2 * rem < h THEN 0 - rem ELSE h - rem

\* the double result falls nearer to the double below k than to k, its
\* distance from k being k * err / (w * 2^(52 - p))
RoundsBelow(k, err, w, h) ==
    LET ek == FloorLog2(k)
        d == ek - RatioExponent(w, h) - (IF Pow2(ek) = k THEN 1 ELSE 0)
    IN  IF d >= 0 THEN 2 * k * err > w * Pow2(d)
        ELSE 2 * k * err * Pow2(0 - d) > w

\* int(b * (w / h))
FloatMulTrunc(b, w, h) ==
    LET k == (b * w) \div h
    IN  IF (b * w) % h # 0 \/ k = 0 THEN k
        ELSE LET e == RatioError(w, h)
             IN  IF e < 0 /\ RoundsBelow(k, 0 - e, w, h) THEN k - 1 ELSE k

\* int(a / (w / h))
FloatDivTrunc(a, w, h) ==
    LET k == (a * h) \div w
    IN  IF (a * h) % w # 0 \/ k = 0 THEN k
        ELSE LET e == RatioError(w, h)
             IN  IF e > 0 /\ RoundsBelow(k, e, w, h) THEN k - 1 ELSE k

\* int(x * 0.pct) and int(x * 0.0pm) for the fractions the source writes as
\* decimal literals
Percent(x, pct) == FloatMulTrunc(x, pct, 100)
PerMille(x, pm) == FloatMulTrunc(x, pm, 1000)

(***************************************************************************)
(* Direction classifier and alignment.                                     *)
(***************************************************************************)
InRange(c, lo, hi) == lo <= c /\ c <= hi

\* [\u0600-\u06FF\u0750-\u077F\u08A0-\u08FF\uFB50-\uFDFF\uFE70-\uFEFF]
IsArabicCodePoint(c) ==
    \/ InRange(c, 1536, 1791)
    \/ InRange(c, 1872, 1919)
    \/ InRange(c, 2208, 2303)
    \/ InRange(c, 64336, 65023)
    \/ InRange(c, 65136, 65279)

\* the same class with \u0590-\u05FF (Hebrew) added
IsRtlCodePoint(c) == InRange(c, 1424, 1535) \/ IsArabicCodePoint(c)

contains_arabic(text) == \E i \in 1..Len(text) : IsArabicCodePoint(text[i])

contains_rtl(text) == \E i \in 1..Len(text) : IsRtlCodePoint(text[i])

get_text_alignment(text, requested_alignment) ==
    IF requested_alignment # "auto"
    THEN requested_alignment
    ELSE IF contains_rtl(text) THEN "right" ELSE "center"

calculate_text_x_position(text_width, canvas_width, padding, alignment) ==
    IF alignment = "left" THEN padding
    ELSE IF alignment = "right" THEN canvas_width - text_width - padding
    ELSE (canvas_width - text_width) \div 2

(***************************************************************************)
(* The font cache.  A cache entry is a file under /tmp; its state is       *)
(*   "absent"  no file at the path                                         *)
(*   "empty"   created or truncated by open(path, 'wb'), nothing written   *)
(*   "font"    the complete bytes of a download that is a loadable font    *)
(*   "junk"    the complete bytes of a download that is no loadable font   *)
(* A remote source answers one attempt with                                *)
(*   "unreachable"  urlopen raises                                         *)
(*   "partial"      urlopen returns, response.read() raises                *)
(*   "ok_font"      the body is read whole and is a loadable font          *)
(*   "ok_junk"      the body is read whole and is no loadable font         *)
(***************************************************************************)
\* the custom font URLs of the requests: the first two have MD5 digests that
\* begin with the same eight digits, the third begins differently
FontUrls ==
    {"https://fonts.example/f28396.ttf", "https://fonts.example/f183695.ttf",
     "https://fonts.example/brand.ttf"}
FontIds == {"headline", "body"}

BoldPath == <<"tmp", "bold_font">>
RegularPath == <<"tmp", "regular_font">>

\* hashlib.md5(font_url.encode()).hexdigest(), for the URLs of FontUrls
Md5HexDigest(font_url) ==
    CASE font_url = "https://fonts.example/f28396.ttf" ->
            <<"0", "5", "0", "4", "6", "5", "9", "0", "9", "2", "c", "4", "a", "7", "d", "f",
              "f", "6", "0", "c", "3", "8", "c", "f", "4", "b", "e", "4", "3", "7", "c", "9">>
      [] font_url = "https://fonts.example/f183695.ttf" ->
            <<"0", "5", "0", "4", "6", "5", "9", "0", "8", "a", "8", "6", "b", "f", "a", "8",
              "a", "e", "4", "5", "7", "4", "7", "8", "e", "8", "e", "4", "3", "6", "7", "d">>
      [] font_url = "https://fonts.example/brand.ttf" ->
            <<"f", "e", "c", "e", "6", "b", "e", "7", "2", "e", "3", "3", "2", "0", "7", "f",
              "0", "8", "c", "1", "a", "0", "5", "f", "6", "a", "2", "a", "c", "3", "a", "3">>

\* url_hash = hashlib.md5(font_url.encode()).hexdigest()[:8]: two URLs whose
\* digests share the first eight digits share the cache file
UrlHash(font_url) == SubSeq(Md5HexDigest(font_url), 1, 8)

CustomPath(font_id, font_url) == <<"tmp", "custom", font_id, UrlHash(font_url)>>

Paths == {BoldPath, RegularPath} \cup {CustomPath(i, u) : i \in FontIds, u \in FontUrls}

FileStates == {"absent", "empty", "font", "junk"}
NetOutcomes == {"unreachable", "partial", "ok_font", "ok_junk"}

\* os.path.exists(path)
Exists(fs, path) == fs[path] # "absent"

\* ImageFont.truetype(path, size) returns (does not raise)
Loadable(fs, path) == fs[path] = "font"

\* open(path, 'wb'): creates the file, or truncates the one that is there
OpenForWrite(fs, path) == [fs EXCEPT ![path] = "empty"]

\* f.write(response.read()) after response.read() returned the whole body
WriteBody(fs, path, outcome) ==
    [fs EXCEPT ![path] = IF outcome = "ok_font" THEN "font" ELSE "junk"]

Connects(outcome) == outcome # "unreachable"
ReadsWhole(outcome) == outcome \in {"ok_font", "ok_junk"}

(***************************************************************************)
(* One download attempt run to its end:                                    *)
(*     with urlopen(req) as response:                                      *)
(*         with open(font_path, 'wb') as f:                                *)
(*             f.write(response.read())                                    *)
(* ok is FALSE when the body raised.                                       *)
(***************************************************************************)
Fetch(fs, path, outcome) ==
    [ok    |-> ReadsWhole(outcome),
     files |-> IF ~Connects(outcome) THEN fs
               ELSE IF ~ReadsWhole(outcome) THEN OpenForWrite(fs, path)
               ELSE WriteBody(OpenForWrite(fs, path), path, outcome)]

\* download_font(): Montserrat-Bold from the primary URL, then from the alternate
download_font(fs, net) ==
    IF Exists(fs, BoldPath)
    THEN [path |-> BoldPath, files |-> fs, tried |-> <<>>]
    ELSE LET a == Fetch(fs, BoldPath, net.primary_bold)
         IN  IF a.ok
             THEN [path |-> BoldPath, files |-> a.files, tried |-> <<<<"primary", 0>>>>]
             ELSE LET b == Fetch(a.files, BoldPath, net.alt_bold)
                  IN  [path  |-> IF b.ok THEN BoldPath ELSE None,
                       files |-> b.files,
                       tried |-> <<<<"primary", 0>>, <<"alternate", 0>>>>]

\* download_font_regular(): Montserrat-SemiBold from its one URL
download_font_regular(fs, net) ==
    IF Exists(fs, RegularPath)
    THEN [path |-> RegularPath, files |-> fs, tried |-> <<>>]
    ELSE LET a == Fetch(fs, RegularPath, net.primary_regular)
         IN  [path  |-> IF a.ok THEN RegularPath ELSE None,
              files |-> a.files,
              tried |-> <<<<"primary", 0>>>>]

\* download_custom_font(font_url, font_id)
download_custom_font(fs, font_url, font_id, net) ==
    LET font_path == CustomPath(font_id, font_url)
    IN  IF Exists(fs, font_path)
        THEN [path |-> font_path, files |-> fs]
        ELSE LET a == Fetch(fs, font_path, net.custom[font_url])
             IN  [path |-> IF a.ok THEN font_path ELSE None, files |-> a.files]

(***************************************************************************)
(* Font handles.  fallback_fonts holds four system paths; a local          *)
(* configuration gives each "absent", "corrupt" (truetype raises) or "ok". *)
(***************************************************************************)
Font(source, index, size) == [source |-> source, index |-> index, size |-> size]

FallbackCount == 4

RECURSIVE FallbackFrom(_, _, _, _)
FallbackFrom(i, local, size, log) ==
    IF i > FallbackCount
    THEN [font |-> Font("builtin", 0, size), tried |-> Append(log, <<"builtin", 0>>)]
    ELSE IF local[i] = "absent"                      \* os.path.exists(fallback) is false
         THEN FallbackFrom(i + 1, local, size, Append(log, <<"local", i>>))
    ELSE IF local[i] = "ok"
         THEN [font |-> Font("local", i, size), tried |-> Append(log, <<"local", i>>)]
         ELSE FallbackFrom(i + 1, local, size, Append(log, <<"local", i>>))

\* get_font(size, bold): custom_font_url is None at every call site
get_font(fs, size, bold, net, local) ==
    LET d == IF bold THEN download_font(fs, net) ELSE download_font_regular(fs, net)
    IN  IF d.path # None /\ Exists(d.files, d.path) /\ Loadable(d.files, d.path)
        THEN [font |-> Font("remote", 0, size), files |-> d.files, tried |-> d.tried]
        ELSE LET f == FallbackFrom(1, local, size, d.tried)
             IN  [font |-> f.font, files |-> d.files, tried |-> f.tried]

(***************************************************************************)
(* Text processing.                                                        *)
(***************************************************************************)
Reverse(s) == [i \in 1..Len(s) |-> s[Len(s) + 1 - i]]

\* arabic_reshaper.reshape: a base letter of the Arabic block becomes a
\* presentation form (U+FE70..U+FEFF); other code points are kept
Reshape(text) ==
    [i \in 1..Len(text) |->
        IF InRange(text[i], 1569, 1610) THEN 65136 + (text[i] - 1569) ELSE text[i]]

\* bidi get_display on a text whose strong characters are all right-to-left:
\* the visual order is the logical order reversed
GetDisplay(text) == Reverse(text)

\* process_arabic_text(text); shaping is "ok" or "fail" (the libraries raise)
process_arabic_text(text, arabic_support, shaping) ==
    IF ~arabic_support THEN text
    ELSE IF ~contains_arabic(text) THEN text
    ELSE IF shaping = "ok" THEN GetDisplay(Reshape(text))
    ELSE text

\* str.upper(): the code points whose upper case is one other code point, as
\* runs <<first, last, step, offset>> above ASCII (Unicode 14)
UpperRuns ==
    {
     <<181, 181, 1, 743>>, <<224, 246, 1, -32>>, <<248, 254, 1, -32>>,
     <<255, 255, 1, 121>>, <<257, 303, 2, -1>>, <<305, 305, 1, -232>>,
     <<307, 311, 2, -1>>, <<314, 328, 2, -1>>, <<331, 375, 2, -1>>,
     <<378, 382, 2, -1>>, <<383, 383, 1, -300>>, <<384, 384, 1, 195>>,
     <<387, 389, 2, -1>>, <<392, 392, 1, -1>>, <<396, 396, 1, -1>>,
     <<402, 402, 1, -1>>, <<405, 405, 1, 97>>, <<409, 409, 1, -1>>,
     <<410, 410, 1, 163>>, <<414, 414, 1, 130>>, <<417, 421, 2, -1>>,
     <<424, 424, 1, -1>>, <<429, 429, 1, -1>>, <<432, 432, 1, -1>>,
     <<436, 438, 2, -1>>, <<441, 441, 1, -1>>, <<445, 445, 1, -1>>,
     <<447, 447, 1, 56>>, <<453, 453, 1, -1>>, <<454, 454, 1, -2>>,
     <<456, 456, 1, -1>>, <<457, 457, 1, -2>>, <<459, 459, 1, -1>>,
     <<460, 460, 1, -2>>, <<462, 476, 2, -1>>, <<477, 477, 1, -79>>,
     <<479, 495, 2, -1>>, <<498, 498, 1, -1>>, <<499, 499, 1, -2>>,
     <<501, 501, 1, -1>>, <<505, 543, 2, -1>>, <<547, 563, 2, -1>>,
     <<572, 572, 1, -1>>, <<575, 576, 1, 10815>>, <<578, 578, 1, -1>>,
     <<583, 591, 2, -1>>, <<592, 592, 1, 10783>>, <<593, 593, 1, 10780>>,
     <<594, 594, 1, 10782>>, <<595, 595, 1, -210>>, <<596, 596, 1, -206>>,
     <<598, 599, 1, -205>>, <<601, 601, 1, -202>>, <<603, 603, 1, -203>>,
     <<604, 604, 1, 42319>>, <<608, 608, 1, -205>>, <<609, 609, 1, 42315>>,
     <<611, 611, 1, -207>>, <<613, 613, 1, 42280>>, <<614, 614, 1, 42308>>,
     <<616, 616, 1, -209>>, <<617, 617, 1, -211>>, <<618, 618, 1, 42308>>,
     <<619, 619, 1, 10743>>, <<620, 620, 1, 42305>>, <<623, 623, 1, -211>>,
     <<625, 625, 1, 10749>>, <<626, 626, 1, -213>>, <<629, 629, 1, -214>>,
     <<637, 637, 1, 10727>>, <<640, 640, 1, -218>>, <<642, 642, 1, 42307>>,
     <<643, 643, 1, -218>>, <<647, 647, 1, 42282>>, <<648, 648, 1, -218>>,
     <<649, 649, 1, -69>>, <<650, 651, 1, -217>>, <<652, 652, 1, -71>>,
     <<658, 658, 1, -219>>, <<669, 669, 1, 42261>>, <<670, 670, 1, 42258>>,
     <<837, 837, 1, 84>>, <<881, 883, 2, -1>>, <<887, 887, 1, -1>>,
     <<891, 893, 1, 130>>, <<940, 940, 1, -38>>, <<941, 943, 1, -37>>,
     <<945, 961, 1, -32>>, <<962, 962, 1, -31>>, <<963, 971, 1, -32>>,
     <<972, 972, 1, -64>>, <<973, 974, 1, -63>>, <<976, 976, 1, -62>>,
     <<977, 977, 1, -57>>, <<981, 981, 1, -47>>, <<982, 982, 1, -54>>,
     <<983, 983, 1, -8>>, <<985, 1007, 2, -1>>, <<1008, 1008, 1, -86>>,
     <<1009, 1009, 1, -80>>, <<1010, 1010, 1, 7>>, <<1011, 1011, 1, -116>>,
     <<1013, 1013, 1, -96>>, <<1016, 1016, 1, -1>>, <<1019, 1019, 1, -1>>,
     <<1072, 1103, 1, -32>>, <<1104, 1119, 1, -80>>, <<1121, 1153, 2, -1>>,
     <<1163, 1215, 2, -1>>, <<1218, 1230, 2, -1>>, <<1231, 1231, 1, -15>>,
     <<1233, 1327, 2, -1>>, <<1377, 1414, 1, -48>>, <<4304, 4346, 1, 3008>>,
     <<4349, 4351, 1, 3008>>, <<5112, 5117, 1, -8>>, <<7296, 7296, 1, -6254>>,
     <<7297, 7297, 1, -6253>>, <<7298, 7298, 1, -6244>>, <<7299, 7300, 1, -6242>>,
     <<7301, 7301, 1, -6243>>, <<7302, 7302, 1, -6236>>, <<7303, 7303, 1, -6181>>,
     <<7304, 7304, 1, 35266>>, <<7545, 7545, 1, 35332>>, <<7549, 7549, 1, 3814>>,
     <<7566, 7566, 1, 35384>>, <<7681, 7829, 2, -1>>, <<7835, 7835, 1, -59>>,
     <<7841, 7935, 2, -1>>, <<7936, 7943, 1, 8>>, <<7952, 7957, 1, 8>>,
     <<7968, 7975, 1, 8>>, <<7984, 7991, 1, 8>>, <<8000, 8005, 1, 8>>,
     <<8017, 8023, 2, 8>>, <<8032, 8039, 1, 8>>, <<8048, 8049, 1, 74>>,
     <<8050, 8053, 1, 86>>, <<8054, 8055, 1, 100>>, <<8056, 8057, 1, 128>>,
     <<8058, 8059, 1, 112>>, <<8060, 8061, 1, 126>>, <<8112, 8113, 1, 8>>,
     <<8126, 8126, 1, -7205>>, <<8144, 8145, 1, 8>>, <<8160, 8161, 1, 8>>,
     <<8165, 8165, 1, 7>>, <<8526, 8526, 1, -28>>, <<8560, 8575, 1, -16>>,
     <<8580, 8580, 1, -1>>, <<9424, 9449, 1, -26>>, <<11312, 11359, 1, -48>>,
     <<11361, 11361, 1, -1>>, <<11365, 11365, 1, -10795>>, <<11366, 11366, 1, -10792>>,
     <<11368, 11372, 2, -1>>, <<11379, 11379, 1, -1>>, <<11382, 11382, 1, -1>>,
     <<11393, 11491, 2, -1>>, <<11500, 11502, 2, -1>>, <<11507, 11507, 1, -1>>,
     <<11520, 11557, 1, -7264>>, <<11559, 11559, 1, -7264>>, <<11565, 11565, 1, -7264>>,
     <<42561, 42605, 2, -1>>, <<42625, 42651, 2, -1>>, <<42787, 42799, 2, -1>>,
     <<42803, 42863, 2, -1>>, <<42874, 42876, 2, -1>>, <<42879, 42887, 2, -1>>,
     <<42892, 42892, 1, -1>>, <<42897, 42899, 2, -1>>, <<42900, 42900, 1, 48>>,
     <<42903, 42921, 2, -1>>, <<42933, 42947, 2, -1>>, <<42952, 42954, 2, -1>>,
     <<42961, 42961, 1, -1>>, <<42967, 42969, 2, -1>>, <<42998, 42998, 1, -1>>,
     <<43859, 43859, 1, -928>>, <<43888, 43967, 1, -38864>>, <<65345, 65370, 1, -32>>,
     <<66600, 66639, 1, -40>>, <<66776, 66811, 1, -40>>, <<66967, 67003, 2, -39>>,
     <<66968, 66976, 2, -39>>, <<66980, 66992, 2, -39>>, <<66996, 67000, 2, -39>>,
     <<67004, 67004, 1, -39>>, <<68800, 68850, 1, -64>>, <<71872, 71903, 1, -32>>,
     <<93792, 93823, 1, -32>>, <<125218, 125251, 1, -34>>
    }

\* str.upper(): the code points whose upper case is several code points
UpperSpecial ==
    (
     223 :> <<83, 83>> @@ 329 :> <<700, 78>> @@ 496 :> <<74, 780>> @@
     912 :> <<921, 776, 769>> @@ 944 :> <<933, 776, 769>> @@ 1415 :> <<1333, 1362>> @@
     7830 :> <<72, 817>> @@ 7831 :> <<84, 776>> @@ 7832 :> <<87, 778>> @@
     7833 :> <<89, 778>> @@ 7834 :> <<65, 702>> @@ 8016 :> <<933, 787>> @@
     8018 :> <<933, 787, 768>> @@ 8020 :> <<933, 787, 769>> @@ 8022 :> <<933, 787, 834>> @@
     8064 :> <<7944, 921>> @@ 8065 :> <<7945, 921>> @@ 8066 :> <<7946, 921>> @@
     8067 :> <<7947, 921>> @@ 8068 :> <<7948, 921>> @@ 8069 :> <<7949, 921>> @@
     8070 :> <<7950, 921>> @@ 8071 :> <<7951, 921>> @@ 8072 :> <<7944, 921>> @@
     8073 :> <<7945, 921>> @@ 8074 :> <<7946, 921>> @@ 8075 :> <<7947, 921>> @@
     8076 :> <<7948, 921>> @@ 8077 :> <<7949, 921>> @@ 8078 :> <<7950, 921>> @@
     8079 :> <<7951, 921>> @@ 8080 :> <<7976, 921>> @@ 8081 :> <<7977, 921>> @@
     8082 :> <<7978, 921>> @@ 8083 :> <<7979, 921>> @@ 8084 :> <<7980, 921>> @@
     8085 :> <<7981, 921>> @@ 8086 :> <<7982, 921>> @@ 8087 :> <<7983, 921>> @@
     8088 :> <<7976, 921>> @@ 8089 :> <<7977, 921>> @@ 8090 :> <<7978, 921>> @@
     8091 :> <<7979, 921>> @@ 8092 :> <<7980, 921>> @@ 8093 :> <<7981, 921>> @@
     8094 :> <<7982, 921>> @@ 8095 :> <<7983, 921>> @@ 8096 :> <<8040, 921>> @@
     8097 :> <<8041, 921>> @@ 8098 :> <<8042, 921>> @@ 8099 :> <<8043, 921>> @@
     8100 :> <<8044, 921>> @@ 8101 :> <<8045, 921>> @@ 8102 :> <<8046, 921>> @@
     8103 :> <<8047, 921>> @@ 8104 :> <<8040, 921>> @@ 8105 :> <<8041, 921>> @@
     8106 :> <<8042, 921>> @@ 8107 :> <<8043, 921>> @@ 8108 :> <<8044, 921>> @@
     8109 :> <<8045, 921>> @@ 8110 :> <<8046, 921>> @@ 8111 :> <<8047, 921>> @@
     8114 :> <<8122, 921>> @@ 8115 :> <<913, 921>> @@ 8116 :> <<902, 921>> @@
     8118 :> <<913, 834>> @@ 8119 :> <<913, 834, 921>> @@ 8124 :> <<913, 921>> @@
     8130 :> <<8138, 921>> @@ 8131 :> <<919, 921>> @@ 8132 :> <<905, 921>> @@
     8134 :> <<919, 834>> @@ 8135 :> <<919, 834, 921>> @@ 8140 :> <<919, 921>> @@
     8146 :> <<921, 776, 768>> @@ 8147 :> <<921, 776, 769>> @@ 8150 :> <<921, 834>> @@
     8151 :> <<921, 776, 834>> @@ 8162 :> <<933, 776, 768>> @@ 8163 :> <<933, 776, 769>> @@
     8164 :> <<929, 787>> @@ 8166 :> <<933, 834>> @@ 8167 :> <<933, 776, 834>> @@
     8178 :> <<8186, 921>> @@ 8179 :> <<937, 921>> @@ 8180 :> <<911, 921>> @@
     8182 :> <<937, 834>> @@ 8183 :> <<937, 834, 921>> @@ 8188 :> <<937, 921>> @@
     64256 :> <<70, 70>> @@ 64257 :> <<70, 73>> @@ 64258 :> <<70, 76>> @@
     64259 :> <<70, 70, 73>> @@ 64260 :> <<70, 70, 76>> @@ 64261 :> <<83, 84>> @@
     64262 :> <<83, 84>> @@ 64275 :> <<1348, 1350>> @@ 64276 :> <<1348, 1333>> @@
     64277 :> <<1348, 1339>> @@ 64278 :> <<1358, 1350>> @@ 64279 :> <<1348, 1341>>
    )

UpperOf(c) ==
    IF c < 128 THEN (IF InRange(c, 97, 122) THEN <<c - 32>> ELSE <<c>>)
    ELSE IF c \in DOMAIN UpperSpecial THEN UpperSpecial[c]
    ELSE LET hit == {r \in UpperRuns : r[1] <= c /\ c <= r[2] /\ (c - r[1]) % r[3] = 0}
         IN  IF hit = {} THEN <<c>> ELSE <<c + (CHOOSE r \in hit : TRUE)[4]>>

\* str.upper()
RECURSIVE Upper(_)
Upper(text) == IF text = <<>> THEN <<>> ELSE UpperOf(Head(text)) \o Upper(Tail(text))

(***************************************************************************)
(* Text measurement of a font handle (the imaging library's part): the     *)
(* built-in font is a fixed small bitmap face, every other font scales     *)
(* with its point size; capitals are wider than small letters and spaces   *)
(* narrower.                                                               *)
(***************************************************************************)
Glyphs == {9, 10, 32, 65, 72, 78, 79, 80, 83, 87, 97, 104, 111, 112, 119, 1488, 1575, 65142}

Advance(font, c) ==
    IF font.source = "builtin" THEN 6
    ELSE IF c \in Whitespace THEN (font.size * 3) \div 10
    ELSE IF InRange(c, 65, 90) THEN (font.size * 7) \div 10
    ELSE (font.size * 5) \div 10

FontMetric(font) == [c \in Glyphs |-> Advance(font, c)]

LineHeight(font) == IF font.source = "builtin" THEN 11 ELSE font.size

\* get_text_size(draw, text, font)
get_text_size(text, font) ==
    [w |-> TextWidth(text, FontMetric(font)), h |-> LineHeight(font)]

(***************************************************************************)
(* Draw operations: what was drawn, which item of its block, and the box   *)
(* it was drawn at.                                                        *)
(***************************************************************************)
Op(kind, idx, x, y, w, h) == [op |-> kind, idx |-> idx, x |-> x, y |-> y, w |-> w, h |-> h]

\* draw_text_with_shadow: the shadow copy, then the main glyphs
ShadowAfterText(kind, idx, x, y, w, h, shadow_offset) ==
    <<Op(kind, idx, x, y, w, h),
      Op(kind \o "_shadow", idx, x + shadow_offset, y + shadow_offset, w, h)>>

draw_text_with_shadow(kind, idx, x, y, w, h, shadow_offset) ==
    <<Op(kind \o "_shadow", idx, x + shadow_offset, y + shadow_offset, w, h),
      Op(kind, idx, x, y, w, h)>>

(***************************************************************************)
(* The loop over the wrapped lines of a text block (headline: gap 15,      *)
(* shadow 3; subheadline: gap 8, shadow 2).  Gives the operations drawn    *)
(* and current_y after the last line.                                      *)
(***************************************************************************)
RECURSIVE DrawLines(_, _, _, _, _, _, _, _, _, _)
DrawLines(kind, lines, idx, font, current_y, alignment, canvas_width, padding, gap, shadow) ==
    IF idx > Len(lines)
    THEN [ops |-> <<>>, y |-> current_y]
    ELSE LET size == get_text_size(lines[idx], font)
             x == calculate_text_x_position(size.w, canvas_width, padding, alignment)
             rest == DrawLines(kind, lines, idx + 1, font, current_y + size.h + gap,
                               alignment, canvas_width, padding, gap, shadow)
         IN  [ops |-> draw_text_with_shadow(kind, idx, x, current_y, size.w, size.h, shadow)
                      \o rest.ops,
              y   |-> rest.y]

\* the CTA button and its label
DrawCta(processed_cta, cta_font, current_y, canvas_width) ==
    LET size == get_text_size(processed_cta, cta_font)
        button_width == size.w + 50 * 2
        button_height == size.h + 25 * 2
        button_x == (canvas_width - button_width) \div 2
        button_y == current_y + 30
        text_x == button_x + (button_width - size.w) \div 2
        text_y == button_y + (button_height - size.h) \div 2 - Percent(size.h, 15)
    IN  <<Op("cta_box", 1, button_x, button_y, button_width, button_height),
          Op("cta_label", 1, text_x, text_y, size.w, size.h)>>

(***************************************************************************)
(* Logo placement on the nine-point grid.                                  *)
(***************************************************************************)
\* the grid with the centre column placed at the left inset
LogoPositionCentreAtLeft(position, logo_width, logo_height, canvas_width, canvas_height, padding, safe_top_px, safe_bottom_px) ==
    LET left_x == padding
        right_x == canvas_width - logo_width - padding
        top_y == safe_top_px + padding
        middle_y == (canvas_height - logo_height) \div 2
        bottom_y == safe_bottom_px - logo_height - padding
        positions ==
            [top_left      |-> <<left_x, top_y>>,
             top_centre    |-> <<left_x, top_y>>,
             top_right     |-> <<right_x, top_y>>,
             middle_left   |-> <<left_x, middle_y>>,
             centre        |-> <<left_x, middle_y>>,
             middle_right  |-> <<right_x, middle_y>>,
             bottom_left   |-> <<left_x, bottom_y>>,
             bottom_centre |-> <<left_x, bottom_y>>,
             bottom_right  |-> <<right_x, bottom_y>>]
    IN  IF position \in DOMAIN positions THEN positions[position] ELSE positions["top_left"]

calculate_logo_position(position, logo_width, logo_height, canvas_width, canvas_height, padding, safe_top_px, safe_bottom_px) ==
    LET left_x == padding
        centre_x == (canvas_width - logo_width) \div 2
        right_x == canvas_width - logo_width - padding
        top_y == safe_top_px + padding
        middle_y == (canvas_height - logo_height) \div 2
        bottom_y == safe_bottom_px - logo_height - padding
        positions ==
            [top_left      |-> <<left_x, top_y>>,
             top_centre    |-> <<centre_x, top_y>>,
             top_center    |-> <<centre_x, top_y>>,
             top_right     |-> <<right_x, top_y>>,
             middle_left   |-> <<left_x, middle_y>>,
             centre        |-> <<centre_x, middle_y>>,
             center        |-> <<centre_x, middle_y>>,
             middle_right  |-> <<right_x, middle_y>>,
             bottom_left   |-> <<left_x, bottom_y>>,
             bottom_centre |-> <<centre_x, bottom_y>>,
             bottom_center |-> <<centre_x, bottom_y>>,
             bottom_right  |-> <<right_x, bottom_y>>]
    IN  IF position \in DOMAIN positions THEN positions[position] ELSE positions["top_left"]

(***************************************************************************)
(* The logo step of generate_ad.  logo_scale is kept in tenths (10 is the  *)
(* source's 1.0).  The fetched logo is "ok", or its fetch or decode fails, *)
(* or the final paste fails.                                               *)
(***************************************************************************)
LogoMaxBox(format, canvas_width, canvas_height, logo_scale) ==
    LET feed == format \in {"instagram_feed", "facebook_feed"}
        base_w == IF feed THEN Percent(canvas_width, 35) ELSE Percent(canvas_width, 30)
        base_h == IF feed THEN Percent(canvas_height, 15) ELSE Percent(canvas_height, 10)
    IN  [w |-> FloatMulTrunc(base_w, logo_scale, 10), h |-> FloatMulTrunc(base_h, logo_scale, 10)]

\* the aspect-preserving fit: by width first, then by height, with the float
\* logo_ratio = logo.width / logo.height
LogoFit(logo_w, logo_h, box) ==
    LET by_w == IF logo_w > box.w
                THEN [w |-> box.w, h |-> FloatDivTrunc(box.w, logo_w, logo_h)]
                ELSE [w |-> logo_w, h |-> logo_h]
    IN  IF by_w.h > box.h
        THEN [w |-> FloatMulTrunc(box.h, logo_w, logo_h), h |-> box.h]
        ELSE by_w

PlaqueColor(logo_background) ==
    IF logo_background = None THEN None
    ELSE IF logo_background \in {"white", "dark", "blur"} THEN logo_background
    ELSE None

LogoStep(req, env, canvas_width, canvas_height, padding, safe_top_px, safe_bottom_px) ==
    LET box == LogoMaxBox(req.format, canvas_width, canvas_height, req.logo_scale)
        fit == LogoFit(env.logo_size.w, env.logo_size.h, box)
        pos == calculate_logo_position(req.logo_position, fit.w, fit.h, canvas_width,
                                       canvas_height, padding, safe_top_px, safe_bottom_px)
        bg_padding == IF req.logo_background = "blur" THEN 25 ELSE 15
        plaque == IF PlaqueColor(req.logo_background) = None THEN <<>>
                  ELSE <<Op("logo_plaque", 1, pos[1] - bg_padding, pos[2] - bg_padding,
                            fit.w + 2 * bg_padding, fit.h + 2 * bg_padding)>>
    IN  IF req.logo_url = None THEN <<>>
        ELSE IF env.logo \in {"fetch_fail", "decode_fail"} THEN <<>>
        ELSE IF fit.w <= 0 \/ fit.h <= 0 THEN <<>>          \* logo.resize raises
        ELSE IF env.logo = "paste_fail" THEN plaque
        ELSE plaque \o <<Op("logo", 1, pos[1], pos[2], fit.w, fit.h)>>

(***************************************************************************)
(* The font-loading stage of generate_ad.  raised is TRUE when             *)
(* ImageFont.truetype raised on the path download_custom_font returned:    *)
(* that call is outside every try but the handler's outermost one.         *)
(***************************************************************************)
LoadHeadlineFont(fs, font_url, size, net, local) ==
    IF font_url # None
    THEN LET d == download_custom_font(fs, font_url, "headline", net)
         IN  IF d.path # None
             THEN [raised |-> ~Loadable(d.files, d.path),
                   font   |-> Font("custom", 0, size),
                   files  |-> d.files]
             ELSE LET g == get_font(d.files, size, TRUE, net, local)
                  IN  [raised |-> FALSE, font |-> g.font, files |-> g.files]
    ELSE LET g == get_font(fs, size, TRUE, net, local)
         IN  [raised |-> FALSE, font |-> g.font, files |-> g.files]

LoadBodyFonts(fs, font_url, subheadline_size, cta_size, net, local) ==
    LET defaults(f0) ==
            LET g1 == get_font(f0, subheadline_size, TRUE, net, local)
                g2 == get_font(g1.files, cta_size, TRUE, net, local)
            IN  [raised |-> FALSE, sub |-> g1.font, cta |-> g2.font, files |-> g2.files]
    IN  IF font_url # None
        THEN LET d == download_custom_font(fs, font_url, "body", net)
             IN  IF d.path # None
                 THEN [raised |-> ~Loadable(d.files, d.path),
                       sub    |-> Font("custom", 0, subheadline_size),
                       cta    |-> Font("custom", 0, cta_size),
                       files  |-> d.files]
                 ELSE defaults(d.files)
        ELSE defaults(fs)

(***************************************************************************)
(* The response.  f"{canvas_width}x{canvas_height}" is built digit by      *)
(* digit.                                                                  *)
(***************************************************************************)
Digit(d) == <<"0", "1", "2", "3", "4", "5", "6", "7", "8", "9">>[d + 1]

RECURSIVE ToDecimal(_)
ToDecimal(n) == IF n < 10 THEN <<Digit(n)>> ELSE Append(ToDecimal(n \div 10), Digit(n % 10))

DimensionString(w, h) == ToDecimal(w) \o <<"x">> \o ToDecimal(h)

ErrorResponse(status) ==
    [status |-> status, success |-> FALSE, format |-> None, dimensions |-> <<>>,
     text_direction |-> None]

SuccessResponse(req, canvas_width, canvas_height, headline_is_rtl) ==
    [status |-> 200, success |-> TRUE, format |-> req.format,
     dimensions |-> DimensionString(canvas_width, canvas_height),
     text_direction |-> IF headline_is_rtl THEN "rtl" ELSE "ltr"]

\* the handler's translation of a failed background download
BackgroundFailureAsServerError == ErrorResponse(500)

BackgroundFailure == ErrorResponse(400)

\* headline_size by len(request.headline)
HeadlineSize(headline, canvas_width) ==
    IF Len(headline) <= 15 THEN PerMille(canvas_width, 90)
    ELSE IF Len(headline) <= 25 THEN PerMille(canvas_width, 75)
    ELSE IF Len(headline) <= 40 THEN PerMille(canvas_width, 65)
    ELSE PerMille(canvas_width, 55)

\* text_y_start by request.headline_position
TextYStart(headline_position, safe_top_px, safe_bottom_px, padding) ==
    LET content_height == safe_bottom_px - safe_top_px
    IN  IF headline_position = "top" THEN safe_top_px + padding
        ELSE IF headline_position = "middle" THEN safe_top_px + (content_height \div 3)
        ELSE safe_bottom_px - Percent(content_height, 45)

(***************************************************************************)
(* The text and logo drawing of generate_ad, from the loaded fonts on.     *)
(***************************************************************************)
Compose(req, env, preset, headline_font, subheadline_font, cta_font) ==
    LET canvas_width == preset.width
        canvas_height == preset.height
        safe_top_px == Percent(canvas_height, preset.safe_top)
        safe_bottom_px == Percent(canvas_height, 100 - preset.safe_bottom)
        padding == Percent(canvas_width, 5)
        headline_is_rtl == contains_rtl(req.headline)
        subheadline_is_rtl == IF req.subheadline # <<>> THEN contains_rtl(req.subheadline) ELSE FALSE
        headline0 == process_arabic_text(req.headline, env.arabic_support, env.shaping)
        processed_subheadline ==
            IF req.subheadline # <<>>
            THEN process_arabic_text(req.subheadline, env.arabic_support, env.shaping) ELSE <<>>
        cta0 == IF req.cta_text # <<>>
                THEN process_arabic_text(req.cta_text, env.arabic_support, env.shaping) ELSE <<>>
        processed_headline ==
            IF req.uppercase_headline /\ ~headline_is_rtl THEN Upper(headline0) ELSE headline0
        processed_cta ==
            IF req.uppercase_cta /\ req.cta_text # <<>> /\ ~contains_rtl(req.cta_text)
            THEN Upper(cta0) ELSE cta0
        text_alignment == get_text_alignment(req.headline, req.text_alignment)
        text_y_start == TextYStart(req.headline_position, safe_top_px, safe_bottom_px, padding)
        max_text_width == canvas_width - (padding * 2)
        background == <<Op("background", 1, 0, 0, canvas_width, canvas_height)>>
        overlay == IF req.add_overlay
                   THEN <<Op("overlay", 1, 0, 0, canvas_width, canvas_height)>> ELSE <<>>
        headline_lines == wrap_text(processed_headline, FontMetric(headline_font), max_text_width)
        head == DrawLines("headline", headline_lines, 1, headline_font, text_y_start,
                          text_alignment, canvas_width, padding, 15, 3)
        sub_alignment == get_text_alignment(req.subheadline, req.text_alignment)
        subheadline_lines ==
            wrap_text(processed_subheadline, FontMetric(subheadline_font), max_text_width)
        sub == IF processed_subheadline # <<>>
               THEN DrawLines("subheadline", subheadline_lines, 1, subheadline_font, head.y + 15,
                              sub_alignment, canvas_width, padding, 8, 2)
               ELSE [ops |-> <<>>, y |-> head.y]
        cta == IF processed_cta # <<>>
               THEN DrawCta(processed_cta, cta_font, sub.y, canvas_width) ELSE <<>>
        logo == LogoStep(req, env, canvas_width, canvas_height, padding, safe_top_px, safe_bottom_px)
    IN  background \o overlay \o head.ops \o sub.ops \o cta \o logo

(***************************************************************************)
(* generate_ad(request) with the cache as it finds it: the response, the   *)
(* canvas of the returned image and the cache as it leaves it.             *)
(***************************************************************************)
generate_ad(req, env, fs) ==
    LET format_settings == FormatLookup(req.format)
        canvas_width == format_settings.width
        canvas_height == format_settings.height
        headline_size == HeadlineSize(req.headline, canvas_width)
        subheadline_size == PerMille(canvas_width, 55)
        cta_size == PerMille(canvas_width, 40)
        hf == LoadHeadlineFont(fs, req.headline_font_url, headline_size, env.net, env.local)
        bf == LoadBodyFonts(hf.files, req.body_font_url, subheadline_size, cta_size,
                            env.net, env.local)
    IN  IF env.background # "ok"
        THEN [response |-> BackgroundFailure, canvas |-> <<>>, files |-> fs]
        ELSE IF ~req.colors_valid                          \* hex_to_rgb raises
        THEN [response |-> ErrorResponse(500), canvas |-> <<>>, files |-> fs]
        ELSE IF hf.raised
        THEN [response |-> ErrorResponse(500), canvas |-> <<>>, files |-> hf.files]
        ELSE IF bf.raised
        THEN [response |-> ErrorResponse(500), canvas |-> <<>>, files |-> bf.files]
        ELSE [response |-> SuccessResponse(req, canvas_width, canvas_height,
                                           contains_rtl(req.headline)),
              canvas   |-> Compose(req, env, format_settings, hf.font, bf.sub, bf.cta),
              files    |-> bf.files]

(***************************************************************************)
(* Requests and environments the handler is driven with.  Each family      *)
(* varies the fields of one concern around the defaults of AdRequest.      *)
(***************************************************************************)
Word(n) == [i \in 1..n |-> 97]

TxtShort == <<97>>
TxtTwoWords == Word(10) \o <<32>> \o Word(10)
TxtLongWord == Word(30)
TxtArabic == <<1575, 1575, 32, 1575>>
TxtHebrew == <<1488, 1488>>
TxtBlank == <<32>>
TxtShopNow == <<83, 104, 111, 112, 32, 78, 111, 119>>
TxtManyWords == TxtTwoWords \o <<32>> \o TxtTwoWords \o <<32>> \o TxtTwoWords

DefaultRequest ==
    [format |-> "instagram_feed", headline |-> TxtShort, subheadline |-> <<>>,
     cta_text |-> TxtShopNow, logo_url |-> None, text_alignment |-> "auto",
     headline_position |-> "bottom", logo_position |-> "top_left",
     logo_background |-> None, logo_scale |-> 10, add_overlay |-> TRUE,
     headline_font_url |-> None, body_font_url |-> None,
     uppercase_headline |-> TRUE, uppercase_cta |-> TRUE, colors_valid |-> TRUE]

AllReachable ==
    [primary_bold |-> "ok_font", alt_bold |-> "ok_font", primary_regular |-> "ok_font",
     custom |-> [u \in FontUrls |-> "ok_font"]]

DefaultEnv ==
    [background |-> "ok", logo |-> "ok", logo_size |-> [w |-> 400, h |-> 200],
     net |-> AllReachable, local |-> <<"ok", "absent", "absent", "absent">>,
     arabic_support |-> TRUE, shaping |-> "ok"]

\* every state of the four paths of fallback_fonts on a host
LocalConfigs == [1..FallbackCount -> {"ok", "absent", "corrupt"}]

\* the hosts the requests are run on: one for each font the walk can end with
RequestLocalConfigs ==
    {<<"ok", "absent", "absent", "absent">>,
     <<"corrupt", "ok", "absent", "absent">>,
     <<"absent", "corrupt", "ok", "absent">>,
     <<"absent", "absent", "absent", "ok">>,
     <<"absent", "absent", "absent", "absent">>}

\* requests for one custom font URL, over the outcomes of every font source
FontChainInputs ==
    {<<[DefaultRequest EXCEPT !.headline_font_url = hu, !.body_font_url = bu],
       [DefaultEnv EXCEPT !.background = bg, !.local = lc,
                          !.net = [primary_bold |-> pb, alt_bold |-> ab,
                                   primary_regular |-> "ok_font",
                                   custom |-> [u \in FontUrls |-> cu]]]>> :
        hu \in {None, "https://fonts.example/f28396.ttf"},
        bu \in {None, "https://fonts.example/f28396.ttf"},
        bg \in {"ok"}, lc \in RequestLocalConfigs,
        pb \in NetOutcomes, ab \in {"ok_font", "unreachable", "partial"},
        cu \in NetOutcomes}

\* what the custom font URLs answer: any outcome for each of the two URLs
\* that share a cache file, and for the third
CustomNets ==
    {n \in [FontUrls -> NetOutcomes] :
        \/ n["https://fonts.example/brand.ttf"] = "ok_font"
        \/ \A u \in FontUrls : n[u] = n["https://fonts.example/brand.ttf"]}

\* requests for every custom font URL (the third as headline font only), the
\* default fonts reachable
FontUrlInputs ==
    {<<[DefaultRequest EXCEPT !.headline_font_url = hu, !.body_font_url = bu],
       [DefaultEnv EXCEPT !.net = [AllReachable EXCEPT !.custom = cn]]>> :
        hu \in {None} \cup FontUrls,
        bu \in {None} \cup (FontUrls \ {"https://fonts.example/brand.ttf"}),
        cn \in CustomNets}

FontInputs == FontChainInputs \cup FontUrlInputs

BoundaryInputs ==
    {<<[DefaultRequest EXCEPT !.format = fmt, !.logo_url = lu, !.logo_background = lb,
                              !.add_overlay = ov, !.subheadline = sh, !.cta_text = ct,
                              !.colors_valid = cv],
       [DefaultEnv EXCEPT !.background = bg, !.logo = lo, !.logo_size = ls]>> :
        fmt \in {"instagram_feed", "square", "story", "facebook_landscape", "bogus"},
        lu \in {None, "logo"}, lb \in {None, "white", "none"},
        ov \in BOOLEAN, sh \in {<<>>, TxtShort}, ct \in {<<>>, <<87, 97>>},
        cv \in BOOLEAN, bg \in {"ok", "fetch_fail", "decode_fail"},
        lo \in {"ok", "fetch_fail", "decode_fail", "paste_fail"},
        ls \in {[w |-> 400, h |-> 200], [w |-> 2000, h |-> 1]}}

LayoutInputs ==
    {<<[DefaultRequest EXCEPT !.format = fmt, !.headline = hl, !.subheadline = sh,
                              !.cta_text = ct, !.text_alignment = ta,
                              !.headline_position = hp, !.uppercase_headline = up,
                              !.logo_url = lu, !.logo_background = "dark"],
       DefaultEnv>> :
        lu \in {None, "logo"},
        fmt \in {"instagram_feed", "tiktok", "facebook_landscape"},
        hl \in {TxtShort, TxtTwoWords, TxtLongWord, TxtArabic, TxtHebrew, TxtBlank, TxtManyWords},
        sh \in {<<>>, TxtTwoWords, TxtArabic},
        ct \in {<<>>, <<87, 97>>, TxtArabic},
        ta \in {"auto", "left", "center", "right", "justify"},
        hp \in {"top", "middle", "bottom"}, up \in BOOLEAN}

\* requests with a logo: its source size, the scale factor (in tenths), the
\* anchor and the format name vary
LogoInputs ==
    {<<[DefaultRequest EXCEPT !.format = fmt, !.logo_url = "logo", !.logo_scale = sc,
                              !.logo_position = lp],
       [DefaultEnv EXCEPT !.logo_size = ls]>> :
        fmt \in {"instagram_feed", "facebook_feed", "square", "story", "tiktok", "bogus"},
        sc \in {5, 10, 20},
        lp \in {"top_left", "centre", "center", "bottom_right", "nowhere"},
        ls \in {[w |-> 400, h |-> 200], [w |-> 100, h |-> 50], [w |-> 1600, h |-> 800]}}

RenderInputs == BoundaryInputs \cup LayoutInputs \cup LogoInputs

(***************************************************************************)
(* The request boundary.  The handler is an async function that never      *)
(* awaits, so one process runs one handler to its end before the next.     *)
(***************************************************************************)
NoRequest == [none |-> TRUE]
NoResponse == ErrorResponse(0)

NumCallers == 2

Callers == 1..NumCallers

InitCache == files = [p \in Paths |-> "absent"]

InitBoundary ==
    /\ phase = "idle"
    /\ request = NoRequest
    /\ environment = NoRequest
    /\ response = NoResponse
    /\ canvas = <<>>

InitCallers ==
    /\ pc = [c \in Callers |-> "idle"]
    /\ call = [c \in Callers |-> NoRequest]
    /\ tried = [c \in Callers |-> <<>>]
    /\ handle = [c \in Callers |-> NoRequest]

NoLines == [returned |-> FALSE, lines |-> <<>>]

InitWrap ==
    /\ w_in = NoRequest
    /\ w_out = NoLines

NoPositions == [returned |-> FALSE, at |-> <<>>]
NoText == [returned |-> FALSE, text |-> <<>>]

InitLogoPosition ==
    /\ lp_in = NoRequest
    /\ lp_out = NoPositions

InitShaping ==
    /\ pt_in = NoRequest
    /\ pt_out = NoText

InitHelpers == InitLogoPosition /\ InitShaping

boundaryVars == <<phase, request, environment, response, canvas>>
callerVars == <<pc, call, tried, handle>>
wrapVars == <<w_in, w_out>>
helperVars == <<lp_in, lp_out, pt_in, pt_out>>

Init == InitCache /\ InitBoundary /\ InitCallers /\ InitWrap /\ InitHelpers

\* POST /generate-ad: the whole handler, on one of the given inputs
Handle(inputs) ==
    /\ phase = "idle"
    /\ \E input \in inputs :
        \E r \in {generate_ad(input[1], input[2], files)} :
            /\ request' = input[1]
            /\ environment' = input[2]
            /\ response' = r.response
            /\ canvas' = r.canvas
            /\ files' = r.files
    /\ phase' = "responded"
    /\ UNCHANGED <<callerVars, wrapVars, helperVars>>

HandleRequest == Handle(RenderInputs)

HandleFontRequest == Handle(FontInputs)

\* the response leaves the process; the cache stays
Deliver ==
    /\ phase = "responded"
    /\ phase' = "idle"
    /\ request' = NoRequest
    /\ environment' = NoRequest
    /\ response' = NoResponse
    /\ canvas' = <<>>
    /\ UNCHANGED <<files, callerVars, wrapVars, helperVars>>

Next == HandleRequest \/ Deliver

Spec == Init /\ [][Next]_vars

NextFontRequests == HandleFontRequest \/ Deliver

SpecFontRequests == Init /\ [][NextFontRequests]_vars

(***************************************************************************)
(* The font functions step by step: a caller is between two file-system or *)
(* network operations.  The callers are requests of the one process and    *)
(* event loop that uvicorn.run(app) starts; generate_ad never awaits, so a *)
(* request enters a font function only when no other request is inside.    *)
(*   check        before os.path.exists(font_path)                         *)
(*   urlopen      before urllib.request.urlopen(req)                       *)
(*   open         connected, before open(font_path, 'wb')                  *)
(*   read         file open, before f.write(response.read())               *)
(*   return_path  the download function returned font_path or None         *)
(*   fallback     get_font is about to walk fallback_fonts                 *)
(*   done         the call returned (or raised)                            *)
(***************************************************************************)
Raised == Font("raised", 0, 0)

NoOtherCallerInside(c) == \A other \in Callers \ {c} : pc[other] = "idle"

\* cta_size is the size of the font the caller loads next from the same
\* source (the body font is loaded at subheadline_size, then at cta_size);
\* 0 when the caller loads one font
GetFontCall(bold, size, cta_size) ==
    [fn |-> "get_font", bold |-> bold, url |-> None,
     path |-> IF bold THEN BoldPath ELSE RegularPath,
     attempt |-> 1, font_path |-> <<>>, size |-> size, cta_size |-> cta_size]

\* font = get_font(size, bold): of either weight at headline_size, and as
\* generate_ad calls it without a body font URL, get_font(subheadline_size,
\* bold=True) and then get_font(cta_size, bold=True)
CallGetFont(c) ==
    /\ pc[c] = "idle"
    /\ NoOtherCallerInside(c)
    /\ \/ \E bold \in BOOLEAN : call' = [call EXCEPT ![c] = GetFontCall(bold, 97, 0)]
       \/ call' = [call EXCEPT ![c] =
                     GetFontCall(TRUE, PerMille(1080, 55), PerMille(1080, 40))]
    /\ pc' = [pc EXCEPT ![c] = "check"]
    /\ UNCHANGED <<files, tried, handle, boundaryVars, wrapVars, helperVars>>

\* generate_ad: headline_font_path = download_custom_font(url, "headline")
\* and body_font_path = download_custom_font(url, "body"); the headline font
\* is then loaded at headline_size, the body font at subheadline_size and
\* at cta_size
CallCustomFont(c) ==
    /\ pc[c] = "idle"
    /\ NoOtherCallerInside(c)
    /\ \E u \in FontUrls, font_id \in FontIds :
        call' = [call EXCEPT ![c] =
                    [fn |-> "custom", bold |-> TRUE, url |-> u, font_id |-> font_id,
                     path |-> CustomPath(font_id, u),
                     attempt |-> 1, font_path |-> <<>>,
                     size |-> IF font_id = "headline" THEN 97 ELSE PerMille(1080, 55),
                     cta_size |-> IF font_id = "headline" THEN 0 ELSE PerMille(1080, 40)]]
    /\ pc' = [pc EXCEPT ![c] = "check"]
    /\ UNCHANGED <<files, tried, handle, boundaryVars, wrapVars, helperVars>>

\* if not os.path.exists(font_path): ... else: return font_path
FoundInCache(c) ==
    /\ pc[c] = "check"
    /\ Exists(files, call[c].path)
    /\ call' = [call EXCEPT ![c].font_path = call[c].path]
    /\ pc' = [pc EXCEPT ![c] = "return_path"]
    /\ UNCHANGED <<files, tried, handle, boundaryVars, wrapVars, helperVars>>

NotInCache(c) ==
    /\ pc[c] = "check"
    /\ ~Exists(files, call[c].path)
    /\ pc' = [pc EXCEPT ![c] = "urlopen"]
    /\ UNCHANGED <<files, call, tried, handle, boundaryVars, wrapVars, helperVars>>

SourceName(cl) == IF cl.attempt = 1 THEN <<"primary", 0>> ELSE <<"alternate", 0>>

\* only download_font has a second URL
HasAlternate(cl) == cl.fn = "get_font" /\ cl.bold /\ cl.attempt = 1

\* the except clause of the attempt: the alternate URL, or return None
AfterFailure(c, log) ==
    /\ tried' = [tried EXCEPT ![c] = log]
    /\ IF HasAlternate(call[c])
       THEN /\ call' = [call EXCEPT ![c].attempt = 2]
            /\ pc' = [pc EXCEPT ![c] = "urlopen"]
       ELSE /\ call' = [call EXCEPT ![c].font_path = <<>>]
            /\ pc' = [pc EXCEPT ![c] = "return_path"]

UrlOpenConnects(c) ==
    /\ pc[c] = "urlopen"
    /\ tried' = [tried EXCEPT ![c] = Append(tried[c], SourceName(call[c]))]
    /\ pc' = [pc EXCEPT ![c] = "open"]
    /\ UNCHANGED <<files, call, handle, boundaryVars, wrapVars, helperVars>>

UrlOpenRaises(c) ==
    /\ pc[c] = "urlopen"
    /\ AfterFailure(c, Append(tried[c], SourceName(call[c])))
    /\ UNCHANGED <<files, handle, boundaryVars, wrapVars, helperVars>>

OpenFile(c) ==
    /\ pc[c] = "open"
    /\ files' = OpenForWrite(files, call[c].path)
    /\ pc' = [pc EXCEPT ![c] = "read"]
    /\ UNCHANGED <<call, tried, handle, boundaryVars, wrapVars, helperVars>>

ReadRaises(c) ==
    /\ pc[c] = "read"
    /\ AfterFailure(c, tried[c])
    /\ UNCHANGED <<files, handle, boundaryVars, wrapVars, helperVars>>

WriteFile(c) ==
    /\ pc[c] = "read"
    /\ \E outcome \in {"ok_font", "ok_junk"} :
        files' = WriteBody(files, call[c].path, outcome)
    /\ call' = [call EXCEPT ![c].font_path = call[c].path]
    /\ pc' = [pc EXCEPT ![c] = "return_path"]
    /\ UNCHANGED <<tried, handle, boundaryVars, wrapVars, helperVars>>

\* get_font: if font_path and os.path.exists(font_path): return truetype(...)
GetFontLoads(c) ==
    /\ pc[c] = "return_path"
    /\ call[c].fn = "get_font"
    /\ call[c].font_path # <<>>
    /\ Exists(files, call[c].font_path)
    /\ Loadable(files, call[c].font_path)
    /\ handle' = [handle EXCEPT ![c] = Font("remote", 0, call[c].size)]
    /\ pc' = [pc EXCEPT ![c] = "done"]
    /\ UNCHANGED <<files, call, tried, boundaryVars, wrapVars, helperVars>>

GetFontFallsBack(c) ==
    /\ pc[c] = "return_path"
    /\ call[c].fn = "get_font"
    /\ ~(/\ call[c].font_path # <<>>
         /\ Exists(files, call[c].font_path)
         /\ Loadable(files, call[c].font_path))
    /\ pc' = [pc EXCEPT ![c] = "fallback"]
    /\ UNCHANGED <<files, call, tried, handle, boundaryVars, wrapVars, helperVars>>

WalkFallbackFonts(c) ==
    /\ pc[c] = "fallback"
    /\ \E local \in LocalConfigs :
        \E f \in {FallbackFrom(1, local, call[c].size, tried[c])} :
            /\ handle' = [handle EXCEPT ![c] = f.font]
            /\ tried' = [tried EXCEPT ![c] = f.tried]
    /\ pc' = [pc EXCEPT ![c] = "done"]
    /\ UNCHANGED <<files, call, boundaryVars, wrapVars, helperVars>>

\* generate_ad: if headline_font_path: ImageFont.truetype(headline_font_path, size)
CustomFontLoads(c) ==
    /\ pc[c] = "return_path"
    /\ call[c].fn = "custom"
    /\ call[c].font_path # <<>>
    /\ handle' = [handle EXCEPT ![c] =
                    IF Loadable(files, call[c].font_path)
                    THEN Font("custom", 0, call[c].size) ELSE Raised]
    /\ pc' = [pc EXCEPT ![c] = "done"]
    /\ UNCHANGED <<files, call, tried, boundaryVars, wrapVars, helperVars>>

\* generate_ad: else: headline_font = get_font(headline_size, bold=True), or
\* subheadline_font = get_font(subheadline_size, bold=True)
CustomFontDefaults(c) ==
    /\ pc[c] = "return_path"
    /\ call[c].fn = "custom"
    /\ call[c].font_path = <<>>
    /\ call' = [call EXCEPT ![c] = GetFontCall(TRUE, call[c].size, call[c].cta_size)]
    /\ tried' = [tried EXCEPT ![c] = <<>>]
    /\ pc' = [pc EXCEPT ![c] = "check"]
    /\ UNCHANGED <<files, handle, boundaryVars, wrapVars, helperVars>>

\* generate_ad: cta_font = ImageFont.truetype(body_font_path, cta_size),
\* reached when the load at subheadline_size returned
LoadCtaFont(c) ==
    /\ pc[c] = "done"
    /\ call[c].fn = "custom"
    /\ call[c].cta_size # 0
    /\ handle[c] # Raised
    /\ handle' = [handle EXCEPT ![c] =
                    IF Loadable(files, call[c].font_path)
                    THEN Font("custom", 0, call[c].cta_size) ELSE Raised]
    /\ call' = [call EXCEPT ![c].size = call[c].cta_size, ![c].cta_size = 0]
    /\ UNCHANGED <<files, pc, tried, boundaryVars, wrapVars, helperVars>>

\* generate_ad: cta_font = get_font(cta_size, bold=True), after
\* subheadline_font = get_font(subheadline_size, bold=True) returned
GetCtaFont(c) ==
    /\ pc[c] = "done"
    /\ call[c].fn = "get_font"
    /\ call[c].cta_size # 0
    /\ call' = [call EXCEPT ![c] = GetFontCall(TRUE, call[c].cta_size, 0)]
    /\ tried' = [tried EXCEPT ![c] = <<>>]
    /\ pc' = [pc EXCEPT ![c] = "check"]
    /\ UNCHANGED <<files, handle, boundaryVars, wrapVars, helperVars>>

\* the fonts of the call are loaded, or ImageFont.truetype raised
Return(c) ==
    /\ pc[c] = "done"
    /\ call[c].cta_size = 0 \/ handle[c] = Raised
    /\ pc' = [pc EXCEPT ![c] = "idle"]
    /\ call' = [call EXCEPT ![c] = NoRequest]
    /\ tried' = [tried EXCEPT ![c] = <<>>]
    /\ handle' = [handle EXCEPT ![c] = NoRequest]
    /\ UNCHANGED <<files, boundaryVars, wrapVars, helperVars>>

NextFonts ==
    \E c \in Callers :
        \/ CallGetFont(c)
        \/ CallCustomFont(c)
        \/ FoundInCache(c)
        \/ NotInCache(c)
        \/ UrlOpenConnects(c)
        \/ UrlOpenRaises(c)
        \/ OpenFile(c)
        \/ ReadRaises(c)
        \/ WriteFile(c)
        \/ GetFontLoads(c)
        \/ GetFontFallsBack(c)
        \/ WalkFallbackFonts(c)
        \/ CustomFontLoads(c)
        \/ CustomFontDefaults(c)
        \/ LoadCtaFont(c)
        \/ GetCtaFont(c)
        \/ Return(c)

SpecFonts == Init /\ [][NextFonts]_vars

(***************************************************************************)
(* Claims about the font cache and the font functions.                     *)
(***************************************************************************)
Populated(p) == files[p] \in {"font", "junk"}

\* the cache files of font_url hold no other URL of the requests: no other
\* URL has its url_hash
OwnsItsFiles(font_url) == \A v \in FontUrls \ {font_url} : UrlHash(v) # UrlHash(font_url)

\* C3 as stated, for the custom font key: the cache entry of one font URL
\* is populated at most once, so the downloads of the URL have written at
\* most one cache file.  (Of a URL that owns its files: a file two URLs share
\* does not tell which of them wrote it.)
C3_Original ==
    \A u \in FontUrls :
        OwnsItsFiles(u) => Cardinality({i \in FontIds : Populated(CustomPath(i, u))}) <= 1

\* C4 as stated: an entry that exists holds the complete bytes of one
\* successful download: a download that failed after the file was opened left
\* no entry behind, and a path handed to a caller is not an entry still being
\* written.
C4_Original ==
    /\ \A p \in Paths :
        files[p] = "empty" => \E c \in Callers : pc[c] = "read" /\ call[c].path = p
    /\ \A c \in Callers :
        (pc[c] = "return_path" /\ call[c].font_path # <<>>)
            => files[call[c].font_path] \in {"font", "junk"}

FullChain ==
    <<<<"primary", 0>>, <<"alternate", 0>>>>
    \o [i \in 1..FallbackCount |-> <<"local", i>>]
    \o <<<<"builtin", 0>>>>

IsPrefix(s, t) == Len(s) <= Len(t) /\ \A i \in 1..Len(s) : s[i] = t[i]

\* C5 as stated: get_font for a default weight, bold or regular, never raises,
\* returns a font handle, and tries primary URL, alternate URL, the local fonts
\* in list order and the built-in font in that order, each only after every
\* earlier one failed.
C5_Original ==
    \A c \in Callers :
        (pc[c] = "done" /\ call[c].fn = "get_font") =>
            /\ handle[c].source \in {"remote", "local", "builtin"}
            /\ IsPrefix(tried[c], FullChain)
            /\ handle[c].source = "local" => tried[c][Len(tried[c])] = <<"local", handle[c].index>>
            /\ handle[c].source = "builtin" => tried[c] = FullChain

(***************************************************************************)
(* Claims about the request handler.                                       *)
(***************************************************************************)
Responded == phase = "responded"

Succeeded == Responded /\ response.status = 200

Drawn(kind) == \E i \in 1..Len(canvas) : canvas[i].op = kind

LogoStepFails ==
    /\ request.logo_url # None
    /\ \/ environment.logo # "ok"
       \/ LET p == FormatLookup(request.format)
              fit == LogoFit(environment.logo_size.w, environment.logo_size.h,
                             LogoMaxBox(request.format, p.width, p.height, request.logo_scale))
          IN  fit.w <= 0 \/ fit.h <= 0

\* C1: a failed background fetch or decode ends the request with status 400;
\* when the background succeeds and only the logo step fails, the request
\* succeeds with headline, subheadline and CTA drawn and no logo composited.
C1_BackgroundFatalLogoNot ==
    Responded =>
        /\ environment.background # "ok" => response.status = 400
        /\ (environment.background = "ok" /\ request.colors_valid /\ LogoStepFails) =>
            /\ response.status = 200
            /\ HasWord(request.headline) => Drawn("headline")
            /\ HasWord(request.subheadline) => Drawn("subheadline")
            /\ request.cta_text # <<>> => (Drawn("cta_box") /\ Drawn("cta_label"))
            /\ ~Drawn("logo")

\* a request whose logo paste failed after the plaque was composited
C1_Witness ==
    /\ Responded
    /\ environment.background = "ok"
    /\ request.logo_url # None
    /\ environment.logo = "paste_fail"
    /\ request.subheadline # <<>>
    /\ response.status = 200
    /\ Drawn("logo_plaque")
    /\ ~Drawn("logo")

\* C2 as stated: with a custom headline or body font URL, a custom-font
\* failure of any kind is non-fatal: the request succeeds, on this request and
\* on every later one with the same URL.
C2_Original ==
    (/\ Responded
     /\ environment.background = "ok"
     /\ request.colors_valid
     /\ (request.headline_font_url # None \/ request.body_font_url # None))
        => response.status = 200

Rank(kind) ==
    CASE kind = "background" -> 1
      [] kind = "overlay" -> 2
      [] kind \in {"headline_shadow", "headline"} -> 3
      [] kind \in {"subheadline_shadow", "subheadline"} -> 4
      [] kind = "cta_box" -> 5
      [] kind = "cta_label" -> 6
      [] kind = "logo_plaque" -> 7
      [] kind = "logo" -> 8

IsShadow(kind) == kind \in {"headline_shadow", "subheadline_shadow"}

\* a is drawn before b in the fixed order: an earlier step, or the same text
\* block and an earlier line, or the same line and the shadow before the glyphs
Precedes(a, b) ==
    \/ Rank(a.op) < Rank(b.op)
    \/ Rank(a.op) = Rank(b.op) /\ a.idx < b.idx
    \/ Rank(a.op) = Rank(b.op) /\ a.idx = b.idx /\ IsShadow(a.op) /\ ~IsShadow(b.op)

\* C6: on a successful request the draw steps happen in the fixed order
\* background, overlay, headline lines (shadow before glyphs), subheadline
\* lines, CTA box, CTA label, logo plaque, logo; skipped steps reorder nothing.
C6_DrawOrder ==
    Succeeded =>
        /\ canvas[1].op = "background"
        /\ \A i \in 1..(Len(canvas) - 1) : Precedes(canvas[i], canvas[i + 1])
        /\ \A i \in 1..Len(canvas) :
            IsShadow(canvas[i].op) =>
                /\ i < Len(canvas)
                /\ ~IsShadow(canvas[i + 1].op)
                /\ Rank(canvas[i + 1].op) = Rank(canvas[i].op)
                /\ canvas[i + 1].idx = canvas[i].idx

\* a success that drew every step, with a headline of two lines
C6_Witness ==
    /\ Succeeded
    /\ \A kind \in {"overlay", "subheadline", "cta_box", "cta_label", "logo_plaque", "logo"} :
        Drawn(kind)
    /\ \E i \in 1..Len(canvas) : canvas[i].op = "headline" /\ canvas[i].idx = 2

ResolvedFormatName(name) == IF name \in DOMAIN FORMAT_PRESETS THEN name ELSE "instagram_feed"

\* C7 as stated: format lookup never fails; a name outside the catalog is
\* rendered on the default preset (1080x1080, 5%/5%); the success response
\* reports the resolved format name and the WxH of the preset used.
C7_Original ==
    (Responded /\ environment.background = "ok" /\ request.colors_valid) =>
        /\ response.status = 200
        /\ request.format \notin DOMAIN FORMAT_PRESETS =>
            (canvas[1].w = 1080 /\ canvas[1].h = 1080)
        /\ response.dimensions = DimensionString(canvas[1].w, canvas[1].h)
        /\ response.format = ResolvedFormatName(request.format)

ResolvedAlignment(text) ==
    IF request.text_alignment # "auto" THEN request.text_alignment
    ELSE IF contains_rtl(text) THEN "right" ELSE "center"

PlacedBy(item, alignment) ==
    LET canvas_width == canvas[1].w
        padding == Percent(canvas_width, 5)
        left_gap == item.x
        right_gap == canvas_width - (item.x + item.w)
    IN  IF alignment = "left" THEN left_gap = padding
        ELSE IF alignment = "right" THEN right_gap = padding
        ELSE left_gap - right_gap \in {-1, 0, 1}

\* the placement of the headline and subheadline lines alone
TextLinesPlaced ==
    Succeeded =>
        \A i \in 1..Len(canvas) :
            /\ canvas[i].op = "headline" =>
                PlacedBy(canvas[i], ResolvedAlignment(request.headline))
            /\ canvas[i].op = "subheadline" =>
                PlacedBy(canvas[i], ResolvedAlignment(request.subheadline))

\* C10 as stated: every headline line, every subheadline line and the CTA
\* button is placed by its resolved alignment: left edge at the padding for
\* left, right edge at canvas width minus padding for right, centered otherwise.
C10_Original ==
    Succeeded =>
        \A i \in 1..Len(canvas) :
            /\ canvas[i].op = "headline" =>
                PlacedBy(canvas[i], ResolvedAlignment(request.headline))
            /\ canvas[i].op = "subheadline" =>
                PlacedBy(canvas[i], ResolvedAlignment(request.subheadline))
            /\ canvas[i].op = "cta_box" =>
                PlacedBy(canvas[i], ResolvedAlignment(request.cta_text))

(***************************************************************************)
(* wrap_text on its own: every text of up to MaxTextLen code points over a *)
(* space, a no-break space, a small letter and a capital, every assignment *)
(* of advances up to MaxAdvance to them (the two spaces advance alike),    *)
(* every max_width up to MaxWrapWidth.                                     *)
(***************************************************************************)
WrapAlphabet == {32, 160, 97, 87}

RECURSIVE TextsUpTo(_)
TextsUpTo(n) ==
    IF n = 0 THEN {<<>>}
    ELSE LET shorter == TextsUpTo(n - 1)
         IN  shorter \cup {Append(t, c) : t \in shorter, c \in WrapAlphabet}

WrapInputs ==
    [text : TextsUpTo(MaxTextLen),
     metric : {m \in [WrapAlphabet -> 0..MaxAdvance] : m[160] = m[32]},
     max_width : 0..MaxWrapWidth]

InitWrapInputs ==
    /\ w_in \in WrapInputs
    /\ w_out = NoLines

CallWrapText ==
    /\ ~w_out.returned
    /\ w_out' = [returned |-> TRUE, lines |-> wrap_text(w_in.text, w_in.metric, w_in.max_width)]
    /\ UNCHANGED <<w_in, files, boundaryVars, callerVars, helperVars>>

NextWrap == CallWrapText

InitWrapText == InitCache /\ InitBoundary /\ InitCallers /\ InitWrapInputs /\ InitHelpers

SpecWrap == InitWrapText /\ [][NextWrap]_vars

\* C8: every line wrap_text returns measures at most max_width, except a line
\* that is one single word whose own measured width exceeds max_width.
C8_LinesFit ==
    w_out.returned =>
        \A i \in 1..Len(w_out.lines) :
            \/ TextWidth(w_out.lines[i], w_in.metric) <= w_in.max_width
            \/ IsSingleWord(w_out.lines[i])

\* a call that wrapped: a line of several words that fits, after a single
\* oversized word emitted alone
C8_Witness ==
    /\ w_out.returned
    /\ Len(w_out.lines) >= 2
    /\ \E i \in 1..Len(w_out.lines) :
        /\ IsSingleWord(w_out.lines[i])
        /\ TextWidth(w_out.lines[i], w_in.metric) > w_in.max_width
    /\ \E i \in 1..Len(w_out.lines) :
        /\ ~IsSingleWord(w_out.lines[i])
        /\ TextWidth(w_out.lines[i], w_in.metric) <= w_in.max_width

\* C9 as stated: at least one line for every string of length >= 1, zero
\* lines for the empty string.
C9_Original ==
    w_out.returned =>
        /\ Len(w_in.text) >= 1 => Len(w_out.lines) >= 1
        /\ Len(w_in.text) = 0 => Len(w_out.lines) = 0

\* C9 amended: wrap_text returns at least one line exactly for the texts that
\* hold a code point that is not whitespace; the empty string and a string of
\* whitespace only give zero lines.
C9_LinesIffWord ==
    w_out.returned => (Len(w_out.lines) >= 1 <=> HasWord(w_in.text))

\* a whitespace-only text of length >= 1, a no-break space in it, wrapped to
\* zero lines
C9_Witness ==
    /\ w_out.returned
    /\ Len(w_in.text) >= 1
    /\ ~HasWord(w_in.text)
    /\ \E i \in 1..Len(w_in.text) : w_in.text[i] = 160
    /\ w_out.lines = <<>>

(***************************************************************************)
(* calculate_logo_position as a function of its arguments: one logo, one   *)
(* canvas, one padding and one pair of safe-zone lines, asked for each of  *)
(* the nine anchors.  The canvas is small so that every relation between   *)
(* the free room and the padding occurs.                                   *)
(***************************************************************************)
MaxSide == 7        \* largest canvas side, in pixels
MaxPadding == 2     \* largest padding, in pixels

Anchors ==
    {"top_left", "top_centre", "top_right", "middle_left", "centre", "middle_right",
     "bottom_left", "bottom_centre", "bottom_right"}

LogoPositionInputs ==
    UNION {[canvas_width : {cw}, canvas_height : {ch}, logo_width : 1..cw, logo_height : 1..ch,
            padding : 1..MaxPadding, safe_top_px : 0..1, safe_bottom_px : (ch - 1)..ch] :
           cw \in 3..MaxSide, ch \in 3..MaxSide}

InitLogoPositionInputs ==
    /\ lp_in \in LogoPositionInputs
    /\ lp_out = NoPositions

CallLogoPosition ==
    /\ ~lp_out.returned
    /\ lp_out' = [returned |-> TRUE,
                  at |-> [a \in Anchors |->
                            calculate_logo_position(a, lp_in.logo_width, lp_in.logo_height,
                                                    lp_in.canvas_width, lp_in.canvas_height,
                                                    lp_in.padding, lp_in.safe_top_px,
                                                    lp_in.safe_bottom_px)]]
    /\ UNCHANGED <<lp_in, pt_in, pt_out, files, boundaryVars, callerVars, wrapVars>>

NextLogoPosition == CallLogoPosition

InitLogoPositionCalls ==
    InitCache /\ InitBoundary /\ InitCallers /\ InitWrap /\ InitShaping /\ InitLogoPositionInputs

SpecLogoPosition == InitLogoPositionCalls /\ [][NextLogoPosition]_vars

AnchorsDistinct == \A a, b \in Anchors : a # b => lp_out.at[a] # lp_out.at[b]

LogoSmallerThanCanvas ==
    /\ lp_in.logo_width < lp_in.canvas_width
    /\ lp_in.logo_height < lp_in.canvas_height
    /\ lp_in.padding > 0

\* the free width beyond the two paddings is at least two pixels
RoomAcross == lp_in.canvas_width - lp_in.logo_width >= 2 * lp_in.padding + 2

\* the middle row lies strictly between the top row and the bottom row
RoomDown ==
    LET middle_y == (lp_in.canvas_height - lp_in.logo_height) \div 2
    IN  /\ lp_in.safe_top_px + lp_in.padding < middle_y
        /\ middle_y < lp_in.safe_bottom_px - lp_in.logo_height - lp_in.padding

\* the free width is within one pixel of the two paddings
ColumnsCollide ==
    LET d == lp_in.canvas_width - lp_in.logo_width
    IN  2 * lp_in.padding - 1 <= d /\ d <= 2 * lp_in.padding + 1

\* C11 as stated: for every logo strictly smaller than the canvas in both
\* dimensions and every padding > 0, the nine anchors map to nine pairwise
\* distinct coordinates.
C11_Original == (lp_out.returned /\ LogoSmallerThanCanvas) => AnchorsDistinct

\* C11 amended: the nine anchors map to nine pairwise distinct coordinates
\* whenever the free width is at least twice the padding plus two pixels and
\* the middle row lies strictly between the top and bottom rows; a logo whose
\* free width is within one pixel of twice the padding has coinciding columns.
C11_DistinctWithRoom ==
    lp_out.returned =>
        /\ (RoomAcross /\ RoomDown) => AnchorsDistinct
        /\ ColumnsCollide => ~AnchorsDistinct

C11_Witness ==
    /\ lp_out.returned
    /\ LogoSmallerThanCanvas
    /\ RoomAcross
    /\ RoomDown
    /\ AnchorsDistinct
    /\ lp_out.at["bottom_right"] # lp_out.at["top_left"]

(***************************************************************************)
(* The logo of a successful response: the box it was pasted at, against    *)
(* the source image, the scale factor and the preset the request resolved  *)
(* to.                                                                     *)
(***************************************************************************)
LogoDrawn == Succeeded /\ Drawn("logo")

LogoBox == LET i == CHOOSE i \in 1..Len(canvas) : canvas[i].op = "logo" IN canvas[i]

\* the aspect-preserving fit of the fetched logo at logo_scale = 1.0
UnscaledFit ==
    LET p == FormatLookup(request.format)
    IN  LogoFit(environment.logo_size.w, environment.logo_size.h,
                LogoMaxBox(request.format, p.width, p.height, 10))

\* C12 as stated: the logo box produced with logo_scale = s has width and
\* height equal to s times the width and height of the aspect-preserving fit
\* box produced with logo_scale = 1.0 (exactly twice for s = 2.0).
C12_Original ==
    LogoDrawn =>
        /\ 10 * LogoBox.w = request.logo_scale * UnscaledFit.w
        /\ 10 * LogoBox.h = request.logo_scale * UnscaledFit.h

(***************************************************************************)
(* process_arabic_text as a function of its argument and of the state of   *)
(* the shaping libraries (imported or not; raising or not).  The texts are *)
(* of one direction each: Latin letters and spaces, or Hebrew and Arabic   *)
(* letters, presentation forms and spaces.                                 *)
(***************************************************************************)
MaxShapeLen == 3    \* longest text handed to process_arabic_text, in code points

\* space, a, alef, bet (Hebrew), alef, beh (Arabic), a presentation form
ShapingAlphabet == {32, 97, 1488, 1489, 1575, 1576, 65142}

RECURSIVE ShapingTextsUpTo(_)
ShapingTextsUpTo(n) ==
    IF n = 0 THEN {<<>>}
    ELSE LET shorter == ShapingTextsUpTo(n - 1)
         IN  shorter \cup {Append(t, c) : t \in shorter, c \in ShapingAlphabet}

OneDirection(t) == ~(contains_rtl(t) /\ \E i \in 1..Len(t) : InRange(t[i], 97, 122))

ShapingInputs ==
    [text : {t \in ShapingTextsUpTo(MaxShapeLen) : OneDirection(t)},
     arabic_support : BOOLEAN,
     shaping : {"ok", "fail"}]

InitShapingInputs ==
    /\ pt_in \in ShapingInputs
    /\ pt_out = NoText

CallProcessArabicText ==
    /\ ~pt_out.returned
    /\ pt_out' = [returned |-> TRUE,
                  text |-> process_arabic_text(pt_in.text, pt_in.arabic_support, pt_in.shaping)]
    /\ UNCHANGED <<pt_in, lp_in, lp_out, files, boundaryVars, callerVars, wrapVars>>

NextShaping == CallProcessArabicText

InitShapingCalls ==
    InitCache /\ InitBoundary /\ InitCallers /\ InitWrap /\ InitLogoPosition /\ InitShapingInputs

SpecShaping == InitShapingCalls /\ [][NextShaping]_vars

ShapingWorks == pt_in.arabic_support /\ pt_in.shaping = "ok"

\* letter shaping followed by bidirectional reordering
Shaped(text) == GetDisplay(Reshape(text))

\* C13 as stated: process_arabic_text returns its input unchanged for every
\* text contains_rtl reports left-to-right, applies letter shaping followed
\* by bidirectional reordering to every text contains_rtl reports
\* right-to-left (Arabic, Hebrew or presentation forms), and returns the
\* original text when shaping fails.
C13_Original ==
    pt_out.returned =>
        /\ ~contains_rtl(pt_in.text) => pt_out.text = pt_in.text
        /\ (contains_rtl(pt_in.text) /\ ShapingWorks) => pt_out.text = Shaped(pt_in.text)
        /\ (contains_rtl(pt_in.text) /\ ~ShapingWorks) => pt_out.text = pt_in.text

\* the same three cases with contains_arabic as the classifier
ShapedByArabicClassifier ==
    pt_out.returned =>
        /\ ~contains_arabic(pt_in.text) => pt_out.text = pt_in.text
        /\ (contains_arabic(pt_in.text) /\ ShapingWorks) => pt_out.text = Shaped(pt_in.text)
        /\ (contains_arabic(pt_in.text) /\ ~ShapingWorks) => pt_out.text = pt_in.text

(***************************************************************************)
(* The content band of a response: between the bottom of the top safe zone *)
(* and the top of the bottom safe zone of the preset used.                 *)
(***************************************************************************)
BandTop == LET p == FormatLookup(request.format) IN Percent(p.height, p.safe_top)

BandBottom == LET p == FormatLookup(request.format) IN Percent(p.height, 100 - p.safe_bottom)

InBand(item) == BandTop <= item.y /\ item.y + item.h <= BandBottom

\* the first headline line starts inside the band, whatever follows it
TextStartsInBand ==
    Succeeded =>
        \A i \in 1..Len(canvas) :
            (canvas[i].op = "headline" /\ canvas[i].idx = 1) =>
                (BandTop <= canvas[i].y /\ canvas[i].y < BandBottom)

\* C14 as stated: for every request (any headline position, any number of
\* wrapped headline and subheadline lines, with or without CTA) the vertical
\* extent of every drawn headline line, subheadline line and the CTA button
\* lies inside the content band.
C14_Original ==
    Succeeded =>
        \A i \in 1..Len(canvas) :
            canvas[i].op \in {"headline", "subheadline", "cta_box"} => InBand(canvas[i])

(***************************************************************************)
(* The class of the preset the request resolved to, against the logo box.  *)
(***************************************************************************)
ResolvedClass == FormatLookup(request.format).aspect

\* C15 as stated: the logo's maximum box is chosen by the class of the preset
\* the request resolved to: every square/feed preset (instagram_feed,
\* facebook_feed, the "square" alias and the default used for an unknown
\* name) gets the square/feed fractions (35% x 15% of the canvas) and every
\* vertical/story preset the vertical/story fractions (30% x 10%), each times
\* logo_scale, so names that resolve to the same preset give the same box;
\* the drawn logo is the source image fitted into that box.
C15_Original ==
    (LogoDrawn /\ ResolvedClass \in {"square", "vertical"}) =>
        LET p == FormatLookup(request.format)
            base_w == IF ResolvedClass = "square" THEN Percent(p.width, 35) ELSE Percent(p.width, 30)
            base_h == IF ResolvedClass = "square" THEN Percent(p.height, 15) ELSE Percent(p.height, 10)
            box == [w |-> FloatMulTrunc(base_w, request.logo_scale, 10),
                    h |-> FloatMulTrunc(base_h, request.logo_scale, 10)]
            fit == LogoFit(environment.logo_size.w, environment.logo_size.h, box)
        IN  LogoBox.w = fit.w /\ LogoBox.h = fit.h

\* the box by the requested name: the two feed names against all others
LogoBoxByRequestedName ==
    LogoDrawn =>
        LET p == FormatLookup(request.format)
            fit == LogoFit(environment.logo_size.w, environment.logo_size.h,
                           LogoMaxBox(request.format, p.width, p.height, request.logo_scale))
        IN  LogoBox.w = fit.w /\ LogoBox.h = fit.h
====
